---- MODULE Spec2Model ----
(***************************************************************************)
(* Model of umap/utils.py: the three-way list merge merge_features and the *)
(* URL decorating helper decorated_patterns / DecoratedURLPattern.resolve. *)
(*                                                                         *)
(* Python lists are objects: the model keeps them in a heap (object name   *)
(* -> contents) so that aliasing and in-place mutation are visible.        *)
(***************************************************************************)
EXTENDS Integers, Sequences, FiniteSets, TLC

VARIABLES heap, args, pc, outcome, result, urlobj, last

mergeVars == <<heap, args, pc, outcome, result>>

urlVars == <<urlobj, last>>

vars == <<heap, args, pc, outcome, result, urlobj, last>>

\* Longest list handed to merge_features.
MaxLen == 3

\* The opaque, equality-comparable items.
Items == {"A", "B", "C"}

Lists == UNION {[1..n -> Items] : n \in 0..MaxLen}

ArgNames == {"reference", "latest", "incoming"}

\* Python `item in lst`.
Contains(lst, item) == \E i \in DOMAIN lst : lst[i] = item

\* `latest is incoming`: the caller's lists are distinct objects.
ListIs(a, b) == FALSE

\* Python `latest == incoming` on lists: same length, equal element-wise.
ListEq(a, b) == Len(a) = Len(b) /\ \A i \in DOMAIN a : a[i] = b[i]

\* [item for item in reference if item in incoming]
RemovedKept(reference, incoming) ==
    SelectSeq(reference, LAMBDA item : Contains(incoming, item))

\* removed = [item for item in reference if item not in incoming]
Removed(reference, incoming) ==
    SelectSeq(reference, LAMBDA item : ~Contains(incoming, item))

\* [item for item in reference if item not in incoming]
AddedSwapped(reference, incoming) ==
    SelectSeq(reference, LAMBDA item : ~Contains(incoming, item))

\* [item for item in incoming]
AddedUnfiltered(reference, incoming) == incoming

\* added = [item for item in incoming if item not in reference]
Added(reference, incoming) ==
    SelectSeq(incoming, LAMBDA item : ~Contains(reference, item))

\* Only the first removed item is looked up in latest.
ConflictFirstOnly(removed, latest) ==
    removed # <<>> /\ ~Contains(latest, removed[1])

\* if item in latest: raise ConflictError()
ConflictInverted(removed, latest) ==
    \E i \in DOMAIN removed : Contains(latest, removed[i])

\* for item in removed: if item not in latest: raise ConflictError()
Conflict(removed, latest) ==
    \E i \in DOMAIN removed : ~Contains(latest, removed[i])

\* merged = latest  -- the same list object under a second name.
AliasList(h, src) == [heap |-> h, ref |-> src]

\* merged = latest[:]  -- a new list object holding the same items.
CopyList(h, src) == [heap |-> h @@ ("merged" :> h[src]), ref |-> "merged"]

\* The public methods of a Python list object.
ListMethods == {"append", "clear", "copy", "count", "extend", "index",
                "insert", "pop", "remove", "reverse", "sort"}

\* for item in removed: merged.delete(item)
\* The attribute is looked up in the first iteration; list has no `delete`,
\* so the lookup raises AttributeError before merged is changed. With
\* nothing removed the loop body never runs.
DeleteEach(h, ref, removed) ==
    [heap |-> h, raised |-> removed # <<>> /\ "delete" \notin ListMethods]

\* for item in added: merged.append(item)
RECURSIVE AppendEach(_, _, _)
AppendEach(h, ref, added) ==
    IF added = <<>> THEN h
    ELSE AppendEach([h EXCEPT ![ref] = Append(h[ref], Head(added))],
                    ref, Tail(added))

\* The whole call, on the heap the caller's three lists live in.
merge_features(h) ==
    IF ListEq(h["latest"], h["incoming"])
    THEN [heap |-> h, outcome |-> "return", result |-> "latest"]
    ELSE LET removed == Removed(h["reference"], h["incoming"])
             added == Added(h["reference"], h["incoming"])
         IN  IF Conflict(removed, h["latest"])
             THEN [heap |-> h, outcome |-> "ConflictError", result |-> "None"]
             ELSE LET merged == CopyList(h, "latest")
                      deleted == DeleteEach(merged.heap, merged.ref, removed)
                  IN  IF deleted.raised
                      THEN [heap |-> deleted.heap, outcome |-> "AttributeError",
                            result |-> "None"]
                      ELSE [heap |-> AppendEach(deleted.heap, merged.ref, added),
                            outcome |-> "return", result |-> merged.ref]

(***************************************************************************)
(* decorated_patterns and DecoratedURLPattern.resolve                      *)
(***************************************************************************)

\* Longest *urls tuple handed to decorated_patterns.
MaxUrls == 2

\* Longest _decorate_with list the model lets a pattern accumulate.
MaxDecorators == 2

\* The URL configuration the calls work on: one pattern at the top, and an
\* include() whose patterns contain a further include().
Patterns == {"p1", "p2", "p3"}

Resolvers == {"r1", "r2"}

Nodes == Patterns \cup Resolvers

\* URLResolver.url_patterns
url_patterns(r) == IF r = "r1" THEN <<"p2", "r2">> ELSE <<"p3">>

Decorators == {"login_required", "never_cache"}

DecoratorLists == UNION {[1..n -> Decorators] : n \in 0..2}

\* The values of the func argument: None, one callable, or a list/tuple.
Funcs ==
    {[kind |-> "None", fs |-> <<>>]}
        \cup {[kind |-> "callable", fs |-> <<d>>] : d \in Decorators}
        \cup {[kind |-> "list", fs |-> fs] : fs \in DecoratorLists}

Range(s) == {s[i] : i \in DOMAIN s}

\* The *urls tuples: distinct nodes, none of them also a direct child of
\* another one of them (no pattern object is listed twice).
UrlTuples ==
    {u \in UNION {[1..n -> Nodes] : n \in 1..MaxUrls} :
        /\ \A i, j \in DOMAIN u : i # j => u[i] # u[j]
        /\ \A i, j \in DOMAIN u :
              u[i] \in Resolvers => u[j] \notin Range(url_patterns(u[i]))}

\* A freshly built URLPattern: no _decorate_with attribute yet.
NewPattern == [cls |-> "URLPattern", has_decorate_with |-> FALSE,
               decorate_with |-> <<>>]

\* The body run on a URLPattern: lines 109-112 and 116-119.
DecorateOne(obj, func) ==
    [cls |-> "DecoratedURLPattern", has_decorate_with |-> TRUE,
     decorate_with |-> Append(IF obj.has_decorate_with
                               THEN obj.decorate_with ELSE <<>>, func)]

\* for pp in url.url_patterns: if isinstance(pp, URLPattern): ...
RECURSIVE DecorateChildren(_, _, _)
DecorateChildren(objs, children, func) ==
    IF children = <<>> THEN objs
    ELSE LET pp == Head(children)
         IN  DecorateChildren(
                 IF pp \in Patterns
                 THEN [objs EXCEPT ![pp] = DecorateOne(objs[pp], func)]
                 ELSE objs,
                 Tail(children), func)

\* def decorate(urls, func)
RECURSIVE decorate(_, _, _)
decorate(objs, urls, func) ==
    IF urls = <<>> THEN objs
    ELSE LET url == Head(urls)
         IN  decorate(
                 IF url \in Patterns
                 THEN [objs EXCEPT ![url] = DecorateOne(objs[url], func)]
                 ELSE DecorateChildren(objs, url_patterns(url), func),
                 Tail(urls), func)

\* for f in func: decorate(urls, f)
RECURSIVE DecorateAll(_, _, _)
DecorateAll(objs, urls, fs) ==
    IF fs = <<>> THEN objs
    ELSE DecorateAll(decorate(objs, urls, Head(fs)), urls, Tail(fs))

\* if func: (None and an empty list or tuple are falsy)
Truthy(func) == func.kind # "None" /\ func.fs # <<>>

decorated_patterns(objs, func, urls) ==
    IF Truthy(func) THEN DecorateAll(objs, urls, func.fs) ELSE objs

\* What resolve() hands back for a pattern whose route matches: the view
\* with the wrappers applied to it, innermost first.
resolve(obj) ==
    IF obj.cls = "DecoratedURLPattern" THEN obj.decorate_with ELSE <<>>

NoCall == [op |-> "none", func |-> [kind |-> "None", fs |-> <<>>],
           urls |-> <<>>, before |-> [p \in Patterns |-> NewPattern],
           returned |-> <<>>, pattern |-> "None", matched |-> FALSE,
           wrappers |-> <<>>]

MergeIdle ==
    /\ heap = [a \in ArgNames |-> <<>>]
    /\ args = heap
    /\ pc = "call"
    /\ outcome = "none"
    /\ result = "None"

UrlsIdle ==
    /\ urlobj = [p \in Patterns |-> NewPattern]
    /\ last = NoCall

Init ==
    /\ heap \in [ArgNames -> Lists]
    /\ args = heap
    /\ pc = "call"
    /\ outcome = "none"
    /\ result = "None"
    /\ UrlsIdle

MergeFeatures ==
    /\ pc = "call"
    /\ LET r == merge_features(heap)
       IN  /\ heap' = r.heap
           /\ outcome' = r.outcome
           /\ result' = r.result
    /\ pc' = "done"
    /\ UNCHANGED <<args, urlVars>>

Next == MergeFeatures

Spec == Init /\ [][Next]_vars

InitUrls == MergeIdle /\ UrlsIdle

DecoratedPatterns ==
    \E func \in Funcs, urls \in UrlTuples :
        LET after == decorated_patterns(urlobj, func, urls)
        IN  /\ \A p \in Patterns : Len(after[p].decorate_with) <= MaxDecorators
            /\ urlobj' = after
            /\ last' = [NoCall EXCEPT !.op = "decorated_patterns",
                                      !.func = func, !.urls = urls,
                                      !.before = urlobj, !.returned = urls]
            /\ UNCHANGED mergeVars

Resolve ==
    \E p \in Patterns, matched \in BOOLEAN :
        /\ last' = [NoCall EXCEPT !.op = "resolve", !.pattern = p,
                                  !.matched = matched,
                                  !.wrappers = IF matched THEN resolve(urlobj[p])
                                               ELSE <<>>]
        /\ UNCHANGED <<urlobj, mergeVars>>

NextUrls == DecoratedPatterns \/ Resolve

SpecUrls == InitUrls /\ [][NextUrls]_vars

(***************************************************************************)
(* Properties of merge_features, checked under Spec                        *)
(***************************************************************************)

Done == pc = "done"

Returned == Done /\ outcome = "return"

Differ == args["latest"] # args["incoming"]

ItemsOf(lst) == {lst[i] : i \in DOMAIN lst}

\* Items of reference that incoming no longer has.
RemovedSet == ItemsOf(args["reference"]) \ ItemsOf(args["incoming"])

\* Some remotely removed item is not in latest either.
MissingRemoved == RemovedSet \ ItemsOf(args["latest"]) # {}

Without(lst, S) == SelectSeq(lst, LAMBDA x : x \notin S)

NoDup(lst) == \A i, j \in DOMAIN lst : lst[i] = lst[j] => i = j

\* Items both sides have although reference does not.
AddedOnBothSides ==
    (ItemsOf(args["latest"]) \cap ItemsOf(args["incoming"]))
        \ ItemsOf(args["reference"])

\* C1 as stated: whenever an item of reference that incoming lacks is also
\* absent from latest, the call ends in ConflictError.
C1_ConflictWheneverMissing ==
    (Done /\ MissingRemoved) => outcome = "ConflictError"

\* C1 amended: when latest differs from incoming and an item of reference
\* that incoming lacks is also absent from latest, the call ends in
\* ConflictError.
C1_ConflictWhenDifferAndMissing ==
    (Done /\ Differ /\ MissingRemoved) => outcome = "ConflictError"

C1_Witness ==
    Done /\ Differ /\ MissingRemoved /\ outcome = "ConflictError"
         /\ Len(Removed(args["reference"], args["incoming"])) > 1

\* C2: a call ends by returning a list or by ConflictError, never by any
\* other error.
C2_OnlyConflictFails ==
    Done => outcome \in {"return", "ConflictError"}

\* C3: when latest differs from incoming, something was removed remotely
\* and every removed item is in latest, the call returns latest without the
\* removed items followed by the items of incoming that reference lacks.
C3_RemovalApplied ==
    (Done /\ Differ /\ RemovedSet # {}
          /\ RemovedSet \subseteq ItemsOf(args["latest"]))
        => /\ outcome = "return"
           /\ heap[result] = Without(args["latest"], RemovedSet)
                  \o Without(args["incoming"], ItemsOf(args["reference"]))

\* C4: when latest differs from incoming and nothing was removed remotely,
\* the call returns latest followed by the items of incoming that reference
\* lacks, in incoming's order.
C4_PureAddition ==
    (Done /\ Differ /\ RemovedSet = {})
        => /\ outcome = "return"
           /\ heap[result] = args["latest"]
                  \o Without(args["incoming"], ItemsOf(args["reference"]))

C4_Witness ==
    /\ Returned /\ Differ /\ RemovedSet = {}
    /\ Len(heap[result]) > Len(args["latest"]) + 1

\* C5: merge_features(reference, latest, latest) returns latest itself,
\* unchanged, without a conflict and without building anything, whatever
\* reference holds.
C5_IdentityFastPath ==
    (Done /\ ~Differ)
        => /\ outcome = "return"
           /\ result = "latest"
           /\ heap["latest"] = args["latest"]
           /\ DOMAIN heap = ArgNames

C5_Witness == Returned /\ ~Differ /\ MissingRemoved

\* C6: merge_features(r, l, r) returns a list equal to l, without a
\* conflict.
C6_NoOpRemote ==
    (Done /\ args["incoming"] = args["reference"])
        => /\ outcome = "return"
           /\ heap[result] = args["latest"]

C6_Witness ==
    /\ Returned /\ args["incoming"] = args["reference"]
    /\ args["latest"] # args["reference"] /\ result = "merged"

\* C7: after a call, returned or raised, reference, latest and incoming
\* hold the items they held before it, in the same order.
C7_ArgumentsUntouched ==
    Done => \A a \in ArgNames : heap[a] = args[a]

C7_Witness ==
    Returned /\ result = "merged" /\ heap["merged"] # args["latest"]

\* C8: ConflictError is raised only if latest differs from incoming and
\* some item of reference is absent from both incoming and latest.
C8_ConflictOnlyWhenMissing ==
    (Done /\ outcome = "ConflictError") => (Differ /\ MissingRemoved)

C8_Witness ==
    /\ Done /\ Differ /\ RemovedSet # {} /\ ~MissingRemoved
    /\ outcome # "ConflictError"

\* C9 as stated: if the three lists are duplicate-free and the call
\* returns, the returned list is duplicate-free.
C9_NoDupPreserved ==
    (Returned /\ \A a \in ArgNames : NoDup(args[a])) => NoDup(heap[result])

\* C9 amended: if the three lists are duplicate-free, no item absent from
\* reference occurs in both latest and incoming, and the call returns, the
\* returned list is duplicate-free.
C9_NoDupPreservedUnlessAddedTwice ==
    (Returned /\ AddedOnBothSides = {} /\ \A a \in ArgNames : NoDup(args[a]))
        => NoDup(heap[result])

C9_Witness ==
    /\ Returned /\ AddedOnBothSides = {} /\ \A a \in ArgNames : NoDup(args[a])
    /\ result = "merged" /\ Len(heap["merged"]) > Len(args["latest"])
    /\ ItemsOf(args["latest"]) \cap ItemsOf(args["incoming"]) # {}

(***************************************************************************)
(* Properties of decorated_patterns, checked under SpecUrls                *)
(***************************************************************************)

\* Every URLPattern under the given nodes, through any number of includes.
RECURSIVE PatternsUnder(_)
PatternsUnder(urls) ==
    IF urls = <<>> THEN {}
    ELSE (IF Head(urls) \in Patterns THEN {Head(urls)}
          ELSE PatternsUnder(url_patterns(Head(urls))))
             \cup PatternsUnder(Tail(urls))

====
